---- MODULE Spec2Model ----
(* Model of configster's src/lib.rs: the line parser parse_line and the   *)
(* file driver parse_file.  A Rust str is modelled as the sequence of its *)
(* characters; byte offsets, byte slicing and char boundaries are         *)
(* computed from the UTF-8 width of every character.                      *)
EXTENDS Integers, Sequences, FiniteSets, TLC

VARIABLES pc, delim, openOk, file, line_num, vec, result, call

vars == <<pc, delim, openOk, file, line_num, vec, result, call>>

(* ---------------------------------------------------------------- *)
(* Bounds and input alphabets                                        *)
(* ---------------------------------------------------------------- *)
MaxLen == 5
MaxLines == 3

\* "U+00E9" stands for the character e-acute, two bytes in UTF-8.
Alphabet == {"a", " ", "=", "#", ",", "U+00E9"}

Delims == {",", " ", "=", "U+00E9"}

LineNumbers == {0, 9, 28}

Strings(n) == UNION {[1..k -> Alphabet] : k \in 0..n}

(* ---------------------------------------------------------------- *)
(* str primitives                                                    *)
(* ---------------------------------------------------------------- *)
Min(S) == CHOOSE x \in S : \A y \in S : x <= y

\* char::encode_utf8: the bytes of one character.
encode_utf8(c) == IF c = "U+00E9" THEN <<"0xC3", "0xA9">> ELSE <<c>>

len_utf8(c) == Len(encode_utf8(c))

is_whitespace_tab_only(c) == c = "\t"

\* char::is_whitespace
is_whitespace(c) == c = " "

RECURSIVE as_bytes(_)
as_bytes(s) == IF s = <<>> THEN <<>> ELSE encode_utf8(Head(s)) \o as_bytes(Tail(s))

\* Byte offset at which the k-th character of s starts.
byte_offset(s, k) == Len(as_bytes(SubSeq(s, 1, k - 1)))

is_char_boundary(s, b) ==
  \/ b = 0
  \/ b = Len(as_bytes(s))
  \/ \E k \in DOMAIN s : byte_offset(s, k) = b

\* s[b..] and s[..b] for a byte index b that is a char boundary.
slice_from(s, b) == SelectSeq([k \in DOMAIN s |-> <<byte_offset(s, k), s[k]>>],
                              LAMBDA p : p[1] >= b)

slice_to(s, b) == SelectSeq([k \in DOMAIN s |-> <<byte_offset(s, k), s[k]>>],
                            LAMBDA p : p[1] < b)

chars(ps) == [k \in DOMAIN ps |-> ps[k][2]]

\* str::find(char): Some(byte offset of the first occurrence) or None.
\* An Option<usize> is <<>> (None) or <<i>> (Some(i)).
rfind(s, c) ==
  LET hits == {k \in DOMAIN s : s[k] = c}
  IN IF hits = {} THEN <<>>
     ELSE <<byte_offset(s, CHOOSE x \in hits : \A y \in hits : y <= x)>>

find(s, c) ==
  LET hits == {k \in DOMAIN s : s[k] = c}
  IN IF hits = {} THEN <<>> ELSE <<byte_offset(s, Min(hits))>>

is_some(i) == i # <<>>

unwrap(i) == i[1]

RECURSIVE trim_start(_)
trim_start(s) ==
  IF s # <<>> /\ is_whitespace(Head(s)) THEN trim_start(Tail(s)) ELSE s

RECURSIVE trim_end(_)
trim_end(s) ==
  IF s # <<>> /\ is_whitespace(s[Len(s)]) THEN trim_end(SubSeq(s, 1, Len(s) - 1)) ELSE s

trim(s) == trim_end(trim_start(s))

\* str::split(char): the tokens between occurrences of c, empty ones kept.
RECURSIVE split(_, _)
split(s, c) ==
  LET i == find(s, c)
  IN IF is_some(i)
     THEN <<chars(slice_to(s, unwrap(i)))>>
            \o split(chars(slice_from(s, unwrap(i) + len_utf8(c))), c)
     ELSE <<s>>

\* format!("{}", ln) for a usize.
Digit(n) == <<"0", "1", "2", "3", "4", "5", "6", "7", "8", "9">>[n + 1]

RECURSIVE to_string_reversed(_)
to_string_reversed(n) ==
  IF n < 10 THEN <<Digit(n)>> ELSE <<Digit(n % 10)>> \o to_string_reversed(n \div 10)

RECURSIVE to_string(_)
to_string(n) == IF n < 10 THEN <<Digit(n)>> ELSE to_string(n \div 10) \o <<Digit(n % 10)>>

(* ---------------------------------------------------------------- *)
(* parse_line                                                        *)
(* ---------------------------------------------------------------- *)
Triple(o, p, a) == [panic |-> FALSE, option |-> o, primary |-> p, attributes |-> a]

\* The thread panics: no value is returned.
Panic == [panic |-> TRUE, option |-> <<>>, primary |-> <<>>, attributes |-> <<>>]

InvalidOption == <<"I", "n", "v", "a", "l", "i", "d", "O", "p", "t", "i", "o", "n">>

invalid_option_off_by_one(ln) ==
  InvalidOption \o <<"_", "o", "n", "_", "L", "i", "n", "e">> \o to_string(ln + 1)

\* format!("{}_on_Line{}", "InvalidOption", ln)
invalid_option(ln) ==
  InvalidOption \o <<"_", "o", "n", "_", "L", "i", "n", "e">> \o to_string(ln)

is_skip_blank_only(line) == line = <<>>

\* line.is_empty() || line.as_bytes()[0] == b'#'
is_skip(line) == line = <<>> \/ as_bytes(line)[1] = "#"

parse_line(l, attr_delimit_char, ln) ==
  LET line == trim(l) IN
  IF is_skip(line) THEN Triple(<<>>, <<>>, <<>>)
  ELSE
    LET i == find(line, "=")
        option == IF is_some(i) THEN trim(chars(slice_to(line, unwrap(i)))) ELSE line
        value == IF is_some(i) THEN trim(chars(slice_from(line, unwrap(i) + 1))) ELSE <<>>
    IN
    IF \E k \in DOMAIN option : is_whitespace(option[k])
    THEN Triple(invalid_option(ln), <<>>, <<>>)
    ELSE
      LET j == find(value, attr_delimit_char) IN
      IF ~is_some(j) THEN Triple(option, value, <<>>)
      ELSE IF ~is_char_boundary(value, unwrap(j) + 1) THEN Panic
      ELSE
        LET primary_value == trim(chars(slice_to(value, unwrap(j))))
            attributes == chars(slice_from(value, unwrap(j) + 1))
            tmp_attr_vec == split(attributes, attr_delimit_char)
            attr_vec == [k \in DOMAIN tmp_attr_vec |-> trim(tmp_attr_vec[k])]
        IN Triple(option, primary_value, attr_vec)

NoCall == [by |-> "none", l |-> <<>>, attr_delimit_char |-> ",", ln |-> 0,
           ret |-> Triple(<<>>, <<>>, <<>>)]

(* ---------------------------------------------------------------- *)
(* SpecLine: parse_line called directly, as test_parse_line does     *)
(* ---------------------------------------------------------------- *)
InitLine ==
  /\ pc = "call"
  /\ delim \in Delims
  /\ openOk = FALSE
  /\ file = <<>>
  /\ line_num = 0
  /\ vec = <<>>
  /\ result = [kind |-> "none", list |-> <<>>]
  /\ \E l \in Strings(MaxLen), ln \in LineNumbers :
       call = [by |-> "test", l |-> l, attr_delimit_char |-> delim, ln |-> ln,
               ret |-> Triple(<<>>, <<>>, <<>>)]

ParseLineCall ==
  /\ pc = "call"
  /\ call' = [call EXCEPT !.ret = parse_line(call.l, call.attr_delimit_char, call.ln)]
  /\ pc' = "returned"
  /\ UNCHANGED <<delim, openOk, file, line_num, vec, result>>

NextLine == ParseLineCall

SpecLine == InitLine /\ [][NextLine]_vars

(* ---------------------------------------------------------------- *)
(* parse_file                                                        *)
(* ---------------------------------------------------------------- *)
\* What reader.lines() can yield for one physical line: Ok(text) or Err.
OkLine(t) == [err |-> FALSE, text |-> t]

ErrLine == [err |-> TRUE, text |-> <<>>]

\* Lines a configuration file is made of in the checked runs.
FileLines ==
  { <<>>,
    <<" ">>,
    <<"#", "a", "=", "a">>,
    <<" ", "#", " ", "a">>,
    <<"a">>,
    <<"a", "=", "a">>,
    <<"a", " ", "=", " ", "a", " ", ",", " ", "a", ",", "a">>,
    <<"a", "=", "a", "U+00E9", "a">>,
    <<"=", "a">>,
    <<",", "=", "a">>,
    <<"a", " ", "a">>,
    <<"a", " ", "a", " ", "=", " ", "a", ",", "a">>,
    invalid_option(1),
    invalid_option(2) \o <<"=", "a">> }

FileDelims == {",", "U+00E9"}

\* line_num + 1 at the call of parse_line
line_number_zero_based(n) == n

line_number(n) == n + 1

\* OptionProperties::new
OptionProperties(option, primary, attributes) ==
  [option |-> option, value |-> [primary |-> primary, attributes |-> attributes]]

push_always(v, t) == Append(v, OptionProperties(t.option, t.primary, t.attributes))

\* if !option.is_empty() { vec.push(OptionProperties::new(..)) }
push_if_option(v, t) ==
  IF t.option # <<>>
  THEN Append(v, OptionProperties(t.option, t.primary, t.attributes))
  ELSE v

Ok(v) == [kind |-> "ok", list |-> v]

Err == [kind |-> "err", list |-> <<>>]

Panicked == [kind |-> "panic", list |-> <<>>]

line_error_keeps_partial(v) == Ok(v)

\* line? on an Err: the error is returned and vec is dropped.
line_error(v) == Err

Init ==
  /\ pc = "open"
  /\ delim \in FileDelims
  /\ openOk = FALSE
  /\ file = <<>>
  /\ line_num = 0
  /\ vec = <<>>
  /\ result = [kind |-> "none", list |-> <<>>]
  /\ call = NoCall

\* File::open(filename)? succeeds; vec = Vec::new().
OpenSucceeds ==
  /\ pc = "open"
  /\ openOk' = TRUE
  /\ vec' = <<>>
  /\ pc' = "loop"
  /\ UNCHANGED <<delim, file, line_num, result, call>>

\* File::open(filename)? fails: the error is returned.
OpenFails ==
  /\ pc = "open"
  /\ result' = Err
  /\ pc' = "done"
  /\ UNCHANGED <<delim, openOk, file, line_num, vec, call>>

\* One iteration of the for loop on a line that was read successfully.
ReadLine ==
  /\ pc = "loop"
  /\ Len(file) < MaxLines
  /\ \E l \in FileLines :
       LET t == parse_line(l, delim, line_number(line_num)) IN
       /\ file' = Append(file, OkLine(l))
       /\ call' = [by |-> "parse_file", l |-> l, attr_delimit_char |-> delim,
                   ln |-> line_number(line_num), ret |-> t]
       /\ IF t.panic
          THEN /\ result' = Panicked
               /\ pc' = "done"
               /\ UNCHANGED <<vec, line_num>>
          ELSE /\ vec' = push_if_option(vec, t)
               /\ line_num' = line_num + 1
               /\ UNCHANGED <<result, pc>>
  /\ UNCHANGED <<delim, openOk>>

\* One iteration of the for loop on a line whose read failed.
ReadFails ==
  /\ pc = "loop"
  /\ Len(file) < MaxLines
  /\ file' = Append(file, ErrLine)
  /\ result' = line_error(vec)
  /\ pc' = "done"
  /\ UNCHANGED <<delim, openOk, line_num, vec, call>>

\* The iterator is exhausted: Ok(vec).
EndOfFile ==
  /\ pc = "loop"
  /\ result' = Ok(vec)
  /\ pc' = "done"
  /\ UNCHANGED <<delim, openOk, file, line_num, vec, call>>

Next == OpenSucceeds \/ OpenFails \/ ReadLine \/ ReadFails \/ EndOfFile

Spec == Init /\ [][Next]_vars

(* ---------------------------------------------------------------- *)
(* Vocabulary of the properties, stated on character positions       *)
(* ---------------------------------------------------------------- *)
WhitespaceChars == {" "}

Least(S) == CHOOSE x \in S : \A y \in S : x <= y

Greatest(S) == CHOOSE x \in S : \A y \in S : y <= x

Trimmed(s) ==
  LET keep == {k \in DOMAIN s : s[k] \notin WhitespaceChars}
  IN IF keep = {} THEN <<>> ELSE SubSeq(s, Least(keep), Greatest(keep))

Positions(s, c) == {k \in DOMAIN s : s[k] = c}

HasEq(s) == Positions(s, "=") # {}

FirstEq(s) == Least(Positions(s, "="))

IsBlank(l) == Trimmed(l) = <<>>

IsComment(l) == Trimmed(l) # <<>> /\ Trimmed(l)[1] = "#"

\* The key: the trimmed text before the first '=', or the whole trimmed line.
KeyOf(l) == IF HasEq(l) THEN Trimmed(SubSeq(l, 1, FirstEq(l) - 1)) ELSE Trimmed(l)

\* The text after the first '='.
RestOf(l) == SubSeq(l, FirstEq(l) + 1, Len(l))

HasWs(s) == \E k \in DOMAIN s : s[k] \in WhitespaceChars

KeyHasWs(l) == ~IsBlank(l) /\ ~IsComment(l) /\ HasWs(KeyOf(l))

ValidKey(k) == k # <<>> /\ ~HasWs(k) /\ k[1] # "#"

DecimalOf(n) ==
  LET d == [i \in 0..9 |-> <<"0", "1", "2", "3", "4", "5", "6", "7", "8", "9">>[i + 1]]
  IN IF n < 10 THEN <<d[n]>> ELSE <<d[n \div 10], d[n % 10]>>

SentinelName(n) ==
  <<"I", "n", "v", "a", "l", "i", "d", "O", "p", "t", "i", "o", "n", "_",
    "o", "n", "_", "L", "i", "n", "e">> \o DecimalOf(n)

\* The tokens of s between the occurrences of d, left to right.
TokensOf(s, d) ==
  LET P == Positions(s, d)
      n == Cardinality(P)
      nth(i) == CHOOSE p \in P : Cardinality({q \in P : q < p}) = i - 1
      first(i) == IF i = 1 THEN 1 ELSE nth(i - 1) + 1
      last(i) == IF i = n + 1 THEN Len(s) ELSE nth(i) - 1
  IN [i \in 1..(n + 1) |-> SubSeq(s, first(i), last(i))]

Returns(o, p, a) == [panic |-> FALSE, option |-> o, primary |-> p, attributes |-> a]

Returned == pc = "returned"

\* Indices of the lines of f whose text satisfies Keep, in file order.
LinesWhere(f, Keep(_)) == SelectSeq([i \in DOMAIN f |-> i], LAMBDA i : Keep(f[i].text))

\* The option of the record that line i of f gives.
OptionOfLine(f, i) ==
  IF KeyHasWs(f[i].text) THEN SentinelName(i) ELSE KeyOf(f[i].text)

OneRecordPerLine(kept) ==
  /\ Len(result.list) = Len(kept)
  /\ \A k \in DOMAIN kept : k \in DOMAIN result.list
        => result.list[k].option = OptionOfLine(file, kept[k])

SentinelNumbers == 0..(MaxLines + 1)

(* ---------------------------------------------------------------- *)
(* Properties of parse_file (Spec)                                   *)
(* ---------------------------------------------------------------- *)

\* C1 as stated: a successful parse_file returns exactly one record per line
\* that is neither blank nor a comment, in file order, equal keys kept apart.
C1_OneRecordPerNonBlankNonCommentLine ==
  result.kind = "ok" =>
    OneRecordPerLine(LinesWhere(file, LAMBDA t : ~IsBlank(t) /\ ~IsComment(t)))

\* C1 amended: a successful parse_file returns exactly one record per line
\* that is neither blank, nor a comment, nor a line whose key is empty (its
\* trimmed text starts with '='); none for the other lines; file order is
\* kept and lines with equal keys are not merged.
C1_OneRecordPerKeyedLine ==
  result.kind = "ok" =>
    OneRecordPerLine(LinesWhere(file,
      LAMBDA t : ~IsBlank(t) /\ ~IsComment(t) /\ KeyOf(t) # <<>>))

C1_Witness ==
  /\ result.kind = "ok"
  /\ Len(file) = 3
  /\ Len(result.list) = 2
  /\ result.list[1].option = result.list[2].option
  /\ \E i \in DOMAIN file : IsBlank(file[i].text) \/ IsComment(file[i].text)

C1_EmptyKeyWitness ==
  /\ result.kind = "ok"
  /\ \E i \in DOMAIN file : ~IsBlank(file[i].text) /\ KeyOf(file[i].text) = <<>>
  /\ Len(result.list) = Len(file) - 1

\* C2: parse_file passes to parse_line, for the i-th physical line, the number
\* i (1-based, blank and comment lines counted); a line at position N whose
\* key has whitespace gives the record InvalidOption_on_Line<N>.
C2_LineNumbers ==
  /\ (call.by = "parse_file" /\ file # <<>> /\ ~file[Len(file)].err)
        => call.ln = Len(file) /\ call.l = file[Len(file)].text
  /\ \A i \in DOMAIN file :
        (~file[i].err /\ KeyHasWs(file[i].text)) =>
           /\ \E k \in DOMAIN vec : vec[k].option = SentinelName(i)
           /\ result.kind = "ok" =>
                \E k \in DOMAIN result.list : result.list[k].option = SentinelName(i)

C2_Witness ==
  /\ result.kind = "ok"
  /\ Len(file) = 3
  /\ IsBlank(file[1].text)
  /\ IsComment(file[2].text)
  /\ KeyHasWs(file[3].text)
  /\ call.ln = 3
  /\ Len(result.list) = 1
  /\ result.list[1].option = SentinelName(3)

\* C7: every record parse_file collects or returns has a non-empty option
\* without any whitespace character.
C7_OptionNonEmptyNoWhitespace ==
  /\ \A k \in DOMAIN vec : vec[k].option # <<>> /\ ~HasWs(vec[k].option)
  /\ \A k \in DOMAIN result.list :
        result.list[k].option # <<>> /\ ~HasWs(result.list[k].option)

C7_Witness ==
  /\ result.kind = "ok"
  /\ Len(result.list) = 2
  /\ \E i \in DOMAIN file : KeyHasWs(file[i].text)
  /\ \E i \in DOMAIN file : ~IsBlank(file[i].text) /\ KeyOf(file[i].text) = <<>>
  /\ \E k \in DOMAIN result.list : result.list[k].option = <<"a">>

\* C8: parse_file is all-or-nothing: when the open fails or the read of a
\* line fails, it returns an I/O error and no list; it returns a list only
\* when the file was opened and every line was read.
C8_AllOrNothing ==
  /\ result.kind = "ok" => openOk /\ \A i \in DOMAIN file : ~file[i].err
  /\ (pc = "done" /\ (~openOk \/ \E i \in DOMAIN file : file[i].err))
        => result = [kind |-> "err", list |-> <<>>]

C8_Witness ==
  /\ pc = "done"
  /\ Len(file) = 3
  /\ file[3].err
  /\ Len(vec) = 2
  /\ result.kind = "err"

C8_OpenWitness == pc = "done" /\ ~openOk /\ result.kind = "err"

\* C10 as stated: a record named InvalidOption_on_Line<N> is in the output
\* only if physical line N has whitespace inside its key.
C10_SentinelOnlyForRejectedLines ==
  result.kind = "ok" =>
    \A k \in DOMAIN result.list : \A n \in SentinelNumbers :
      result.list[k].option = SentinelName(n) =>
        n \in DOMAIN file /\ KeyHasWs(file[n].text)

\* C10 amended: a record named InvalidOption_on_Line<N> is in the output only
\* if physical line N has whitespace inside its key or the key of some line
\* is itself the text InvalidOption_on_Line<N>.
C10_SentinelForRejectedOrLiteral ==
  result.kind = "ok" =>
    \A k \in DOMAIN result.list : \A n \in SentinelNumbers :
      result.list[k].option = SentinelName(n) =>
        \/ n \in DOMAIN file /\ KeyHasWs(file[n].text)
        \/ \E j \in DOMAIN file :
             ~IsComment(file[j].text) /\ KeyOf(file[j].text) = SentinelName(n)

C10_Witness ==
  /\ result.kind = "ok"
  /\ Len(result.list) = 2
  /\ result.list[1].option = SentinelName(2)
  /\ result.list[2].option = SentinelName(2)
  /\ KeyOf(file[1].text) = SentinelName(2)
  /\ KeyHasWs(file[2].text)

(* ---------------------------------------------------------------- *)
(* Properties of parse_line (SpecLine)                               *)
(* ---------------------------------------------------------------- *)

\* C3: a line that is not blank, not a comment and whose key has a whitespace
\* character gives ("InvalidOption_on_Line<N>", "", []) for the supplied N,
\* whatever the delimiter and whatever follows the key.
C3_WhitespaceKeyGivesSentinel ==
  (Returned /\ KeyHasWs(call.l)) =>
     call.ret = Returns(SentinelName(call.ln), <<>>, <<>>)

C3_Witness ==
  /\ Returned
  /\ KeyHasWs(call.l)
  /\ HasEq(call.l)
  /\ call.attr_delimit_char = "U+00E9"
  /\ Positions(RestOf(call.l), call.attr_delimit_char) # {}
  /\ call.ln = 28
  /\ call.ret.option = SentinelName(28)

\* C4: a line that is empty after trimming, or whose first character after
\* trimming is '#', gives the skip sentinel ("", "", []) for every delimiter
\* and line number.
C4_BlankOrCommentSkipped ==
  (Returned /\ (IsBlank(call.l) \/ IsComment(call.l))) =>
     call.ret = Returns(<<>>, <<>>, <<>>)

C4_Witness ==
  /\ Returned
  /\ IsComment(call.l)
  /\ call.l[1] = " "
  /\ HasEq(call.l)
  /\ Positions(call.l, call.attr_delimit_char) # {}
  /\ call.ret = Returns(<<>>, <<>>, <<>>)

C4_BlankWitness ==
  Returned /\ Len(call.l) = 3 /\ IsBlank(call.l) /\ call.ret.option = <<>>

\* C5: a line K = V with an option key K and no delimiter in V gives
\* (K, trim(V), []); the split is at the first '=' only, so a V with further
\* '=' characters is the primary value whole.
C5_KeyValueNoDelimiter ==
  (Returned /\ HasEq(call.l) /\ ValidKey(KeyOf(call.l))) =>
     \A q \in FirstEq(call.l)..Len(call.l) :
        LET pad == SubSeq(call.l, FirstEq(call.l) + 1, q)
            V == SubSeq(call.l, q + 1, Len(call.l))
        IN (Trimmed(pad) = <<>> /\ Positions(V, call.attr_delimit_char) = {})
              => call.ret = Returns(KeyOf(call.l), Trimmed(V), <<>>)

C5_Witness ==
  /\ Returned
  /\ ValidKey(KeyOf(call.l))
  /\ Cardinality(Positions(call.l, "=")) = 2
  /\ Positions(call.l, call.attr_delimit_char) = {}
  /\ Len(call.ret.primary) = 3
  /\ call.ret.primary[2] = "="

\* C6: a line K=V1 d V2 d ... d Vn with a valid key and any delimiter d gives
\* (K, trim(V1), [trim(V2), ..., trim(Vn)]), one attribute per token of the
\* tail, in order, empty tokens kept.
C6_AttributesPerToken ==
  (Returned /\ HasEq(call.l) /\ ValidKey(KeyOf(call.l))) =>
     LET tokens == TokensOf(RestOf(call.l), call.attr_delimit_char)
     IN Len(tokens) >= 2 =>
          call.ret = Returns(KeyOf(call.l), Trimmed(tokens[1]),
                             [k \in 1..(Len(tokens) - 1) |-> Trimmed(tokens[k + 1])])

\* C9: parse_line returns a triple for every line and every delimiter
\* character; it never aborts.
C9_ParseLineTotal == Returned => ~call.ret.panic

====
